---- MODULE Spec2Model ----
(***************************************************************************)
(* A model of timestampvm's block logic (src/timestampvm/block.go):        *)
(* TimeBlock with Initialize, Verify, Accept and Reject, the VM's          *)
(* verifiedBlocks map (the spec's PendingBlockSet) and the state the block *)
(* persists itself to (PutBlock, SetLastAccepted, Commit).                 *)
(*                                                                         *)
(* A TimeBlock is a Go pointer: the model keeps the allocated blocks in    *)
(* the sequence `blocks` and a pointer is an index into it.  The payload   *)
(* Dt takes no part in any check of block.go and is left out of the        *)
(* encoding.  Heights stay far below 2^64 and timestamps far below 2^63,   *)
(* so the uint64 and int64 arithmetic of Verify is exact here.             *)
(***************************************************************************)
EXTENDS Integers, Sequences, FiniteSets, TLC

VARIABLES
    blocks,          \* the allocated *TimeBlock objects; blocks[1] is genesis
    verifiedBlocks,  \* vm.verifiedBlocks: ids.ID -> *TimeBlock (index in blocks)
    state,           \* vm.state: written layer, durable layer, log of the call
    last,            \* the call that has just returned, NoCall between calls
    verifiedEver,    \* history: the ids whose Verify has returned nil
    everWritten,     \* history: the store writes that have succeeded
    failures,        \* history: how many store operations have failed
    calls            \* the calls of goroutines running at the same time

vars == <<blocks, verifiedBlocks, state, last, verifiedEver, everWritten,
          failures, calls>>

----------------------------------------------------------------------------
(* Bounds of the model. *)

\* Blocks allocated besides genesis.
NumBlocks == 2

\* Largest height a proposed block claims; only genesis claims height 0.
MaxHeight == 2

\* The wall clock reads Now0 .. Now0 + MaxSkew (Unix seconds) when asked.
Now0 == 10
MaxSkew == 1

\* Store operations that fail in one run.
MaxFailures == 1

\* Goroutines that call into the blocks at the same time (SpecConc).
NumThreads == 2

(* Program constants. *)

\* time.Hour, in the seconds of Unix().
Hour == 3600

\* "The genesis block is at height 0", "The genesis block has time 0".
GenesisHeight == 0
GenesisTime == 0

----------------------------------------------------------------------------
(* choices.Status *)

Unknown == "Unknown"
Processing == "Processing"
Rejected == "Rejected"
Accepted == "Accepted"

Statuses == {Unknown, Processing, Rejected, Accepted}
Terminal == {Accepted, Rejected}

(* The errors of block.go; nil is success. *)

nil == "nil"
errTimestampTooEarly == "errTimestampTooEarly"
errDatabaseGet == "errDatabaseGet"
errTimestampTooLate == "errTimestampTooLate"
errBlockNil == "errBlockNil"
\* fmt.Errorf("expected block to have height %d, but found %d", ...)
errHeight == "errHeight"

(* The errors the state's operations return. *)

errPutBlock == "errPutBlock"
errSetLastAccepted == "errSetLastAccepted"
errCommit == "errCommit"

\* Which store operation of a call fails, if any.
Failures == {nil, errPutBlock, errSetLastAccepted, errCommit}

----------------------------------------------------------------------------
(* Identity: id = hash(bytes). *)

\* ids.Empty, the parent of genesis.
EmptyID == <<>>

\* The codec's encoding of the serialized fields, in their declared order.
Marshal(prnt, hght, tmstmp) == <<prnt, hght, tmstmp>>

\* hashing.ComputeHash256Array: a collision-free hash, kept symbolic.
ComputeHash256Array(bytes) == <<"sha256", bytes>>

\* newTimeBlock: the fields set, id, bytes, status and vm still zero.
newTimeBlock(parentID, height, timestamp) ==
    [PrntID |-> parentID, Hght |-> height, Tmstmp |-> timestamp,
     id |-> EmptyID, bytes |-> <<>>, status |-> Unknown]

\* An Initialize that hashes the status along with the bytes.
InitializeStatusInID(b, bytes, status) ==
    [b EXCEPT !.bytes = bytes,
              !.id = ComputeHash256Array(<<bytes, status>>),
              !.status = status]

\* TimeBlock.Initialize
Initialize(b, bytes, status) ==
    [b EXCEPT !.bytes = bytes,
              !.id = ComputeHash256Array(bytes),
              !.status = status]

\* TimeBlock.SetStatus
SetStatus(b, status) == [b EXCEPT !.status = status]

\* The genesis block, as the VM builds it and finds it accepted in its state.
Genesis ==
    Initialize(newTimeBlock(EmptyID, GenesisHeight, GenesisTime),
               Marshal(EmptyID, GenesisHeight, GenesisTime), Accepted)

----------------------------------------------------------------------------
(* vm.state: PutBlock and SetLastAccepted write to a layer that reads see  *)
(* at once (`written`); Commit makes that layer durable (`durable`).  An   *)
(* operation that fails changes nothing.  `log` is the sequence of store   *)
(* operations of the call in progress.                                     *)

Put(f, k, v) == [x \in DOMAIN f \cup {k} |-> IF x = k THEN v ELSE f[x]]

Delete(f, k) == [x \in DOMAIN f \ {k} |-> f[x]]

\* What the state keeps of a block: its bytes and its status.
Record(b) == [bytes |-> b.bytes, status |-> b.status]

\* The codec reading the fields back from the bytes.
Unmarshal(bytes) ==
    [PrntID |-> bytes[1], Hght |-> bytes[2], Tmstmp |-> bytes[3]]

PutBlock(st, b, ok) ==
    IF ok
    THEN [st EXCEPT !.written.blks = Put(@, b.id, Record(b)),
                    !.log = Append(@, <<"PutBlock", b.id>>)]
    ELSE [st EXCEPT !.log = Append(@, <<"PutBlock failed", b.id>>)]

SetLastAccepted(st, blkID, ok) ==
    IF ok
    THEN [st EXCEPT !.written.lastAccepted = blkID,
                    !.log = Append(@, <<"SetLastAccepted", blkID>>)]
    ELSE [st EXCEPT !.log = Append(@, <<"SetLastAccepted failed", blkID>>)]

Commit(st, ok) ==
    IF ok
    THEN [st EXCEPT !.durable = st.written,
                    !.log = Append(@, <<"Commit">>)]
    ELSE [st EXCEPT !.log = Append(@, <<"Commit failed">>)]

\* state.GetBlock: the block a read sees, parsed and Initialize'd with the
\* recorded status, or not found.
StateGetBlock(st, blkID) ==
    IF blkID \in DOMAIN st.written.blks
    THEN LET r == st.written.blks[blkID]
             f == Unmarshal(r.bytes)
         IN  [found |-> TRUE,
              blk |-> Initialize(newTimeBlock(f.PrntID, f.Hght, f.Tmstmp),
                                 r.bytes, r.status)]
    ELSE [found |-> FALSE]

\* vm.GetBlock: a verified block first, else the state's record.
GetBlock(blkID, dbErr) ==
    IF blkID \in DOMAIN verifiedBlocks
    THEN [found |-> TRUE, blk |-> blocks[verifiedBlocks[blkID]]]
    ELSE IF dbErr THEN [found |-> FALSE]
    ELSE StateGetBlock(state, blkID)

----------------------------------------------------------------------------
(* The engine makes its calls one after the other: a call is made when no  *)
(* call is in progress, and leaves in `last` what it returned.             *)

NoCall == [op |-> "none", b |-> 0, err |-> nil]

\* The call has returned; the engine goes on to its next call.
Return ==
    /\ last # NoCall
    /\ last' = NoCall
    /\ UNCHANGED <<blocks, verifiedBlocks, state, verifiedEver, everWritten,
                   failures, calls>>

----------------------------------------------------------------------------
(* TimeBlock.Verify *)

\* time.Now().Add(time.Hour).Unix(), with now = time.Now().Unix()
NowPlusHour(now) == now + Hour

HeightMismatch(b, parent) == parent.Hght + 1 # b.Hght

TimestampTooEarly(b, parent) == b.Tmstmp < parent.Tmstmp

\* A Verify that lets a block stamped exactly now + 1 hour through.
TimestampTooLateStrict(b, now) == b.Tmstmp > NowPlusHour(now)

TimestampTooLate(b, now) == b.Tmstmp >= NowPlusHour(now)

\* A Verify that compares with the clock before it compares with the parent.
VerifyErrLateFirst(b, got, now) ==
    IF ~got.found THEN errDatabaseGet
    ELSE IF HeightMismatch(b, got.blk) THEN errHeight
    ELSE IF TimestampTooLate(b, now) THEN errTimestampTooLate
    ELSE IF TimestampTooEarly(b, got.blk) THEN errTimestampTooEarly
    ELSE nil

\* The error Verify returns for the non-nil block b.
VerifyErr(b, got, now) ==
    IF ~got.found THEN errDatabaseGet
    ELSE IF HeightMismatch(b, got.blk) THEN errHeight
    ELSE IF TimestampTooEarly(b, got.blk) THEN errTimestampTooEarly
    ELSE IF TimestampTooLate(b, now) THEN errTimestampTooLate
    ELSE nil

\* A registration that replaces the whole map by the one entry.
RegisterClearing(vb, blkID, p) == Put(<<>>, blkID, p)

\* A registration that removes an entry it finds under the id.
RegisterToggle(vb, blkID, p) ==
    IF blkID \in DOMAIN vb THEN Delete(vb, blkID) ELSE Put(vb, blkID, p)

\* b.vm.verifiedBlocks[b.id] = b
Register(vb, blkID, p) == Put(vb, blkID, p)

\* Verify on a nil *TimeBlock.
VerifyNil ==
    /\ last = NoCall
    /\ last' = [op |-> "Verify", b |-> 0, err |-> errBlockNil]
    /\ UNCHANGED <<blocks, verifiedBlocks, state, verifiedEver, everWritten,
                   failures, calls>>

\* Verify on the block at p; dbErr: the state fails to read the parent;
\* now: what the wall clock reads during the call.
Verify(p, dbErr, now) ==
    LET b == blocks[p]
        got == GetBlock(b.PrntID, dbErr)
        err == VerifyErr(b, got, now)
    IN  /\ last = NoCall
        /\ verifiedBlocks' = IF err = nil
                             THEN Register(verifiedBlocks, b.id, p)
                             ELSE verifiedBlocks
        /\ verifiedEver' = IF err = nil
                           THEN verifiedEver \cup {b.id}
                           ELSE verifiedEver
        /\ last' = [op |-> "Verify", b |-> p, err |-> err, now |-> now,
                     parent |-> got]
        /\ UNCHANGED <<blocks, state, everWritten, failures, calls>>

----------------------------------------------------------------------------
(* TimeBlock.Accept and TimeBlock.Reject.  Each yields the state, the map  *)
(* and the error the call leaves; b already carries the new status.        *)

\* An Accept that forgets to delete the block from verifiedBlocks.
AcceptCallKeepsVerified(st, vb, b, fail) ==
    LET blkID == b.id
        s1 == PutBlock(st, b, fail # errPutBlock)
        s2 == SetLastAccepted(s1, blkID, fail # errSetLastAccepted)
        s3 == Commit(s2, fail # errCommit)
    IN  IF fail = errPutBlock
        THEN [state |-> s1, verifiedBlocks |-> vb, err |-> errPutBlock]
        ELSE IF fail = errSetLastAccepted
        THEN [state |-> s2, verifiedBlocks |-> vb, err |-> errSetLastAccepted]
        ELSE [state |-> s3, verifiedBlocks |-> vb, err |-> fail]

\* An Accept that sets the last accepted id before it writes the record.
AcceptCallPointerFirst(st, vb, b, fail) ==
    LET blkID == b.id
        s1 == SetLastAccepted(st, blkID, fail # errSetLastAccepted)
        s2 == PutBlock(s1, b, fail # errPutBlock)
        s3 == Commit(s2, fail # errCommit)
    IN  IF fail = errSetLastAccepted
        THEN [state |-> s1, verifiedBlocks |-> vb, err |-> errSetLastAccepted]
        ELSE IF fail = errPutBlock
        THEN [state |-> s2, verifiedBlocks |-> vb, err |-> errPutBlock]
        ELSE [state |-> s3, verifiedBlocks |-> Delete(vb, b.id), err |-> fail]

\* An Accept that goes on to Commit after SetLastAccepted has failed.
AcceptCallCommitsAnyway(st, vb, b, fail) ==
    LET blkID == b.id
        s1 == PutBlock(st, b, fail # errPutBlock)
        s2 == SetLastAccepted(s1, blkID, fail # errSetLastAccepted)
        s3 == Commit(s2, fail # errCommit)
    IN  IF fail = errPutBlock
        THEN [state |-> s1, verifiedBlocks |-> vb, err |-> errPutBlock]
        ELSE [state |-> s3, verifiedBlocks |-> Delete(vb, b.id), err |-> fail]

AcceptCall(st, vb, b, fail) ==
    LET blkID == b.id
        s1 == PutBlock(st, b, fail # errPutBlock)
        s2 == SetLastAccepted(s1, blkID, fail # errSetLastAccepted)
        s3 == Commit(s2, fail # errCommit)
    IN  IF fail = errPutBlock
        THEN [state |-> s1, verifiedBlocks |-> vb, err |-> errPutBlock]
        ELSE IF fail = errSetLastAccepted
        THEN [state |-> s2, verifiedBlocks |-> vb, err |-> errSetLastAccepted]
        ELSE [state |-> s3, verifiedBlocks |-> Delete(vb, b.id), err |-> fail]

\* A Reject that, like Accept, sets the last accepted id.
RejectCallSetsLastAccepted(st, vb, b, fail) ==
    LET s1 == PutBlock(st, b, fail # errPutBlock)
        s2 == SetLastAccepted(s1, b.id, TRUE)
        s3 == Commit(s2, fail # errCommit)
    IN  IF fail = errPutBlock
        THEN [state |-> s1, verifiedBlocks |-> vb, err |-> errPutBlock]
        ELSE [state |-> s3, verifiedBlocks |-> Delete(vb, b.id), err |-> fail]

RejectCall(st, vb, b, fail) ==
    LET s1 == PutBlock(st, b, fail # errPutBlock)
        s2 == Commit(s1, fail # errCommit)
    IN  IF fail = errPutBlock
        THEN [state |-> s1, verifiedBlocks |-> vb, err |-> errPutBlock]
        ELSE [state |-> s2, verifiedBlocks |-> Delete(vb, b.id), err |-> fail]

\* The writes among the store operations of a log.
Writes(log) ==
    {log[i] : i \in {j \in 1..Len(log) :
                        log[j][1] \in {"PutBlock", "SetLastAccepted"}}}

\* The store fails at most MaxFailures times in a run.
Failed(fail) ==
    IF fail = nil
    THEN failures' = failures
    ELSE failures < MaxFailures /\ failures' = failures + 1

Accept(p, fail) ==
    LET b == SetStatus(blocks[p], Accepted)
        r == AcceptCall([state EXCEPT !.log = <<>>], verifiedBlocks, b, fail)
    IN  /\ last = NoCall
        /\ blocks' = [blocks EXCEPT ![p] = b]
        /\ state' = r.state
        /\ verifiedBlocks' = r.verifiedBlocks
        /\ last' = [op |-> "Accept", b |-> p, err |-> r.err]
        /\ everWritten' = everWritten \cup Writes(r.state.log)
        /\ Failed(fail)
        /\ UNCHANGED <<verifiedEver, calls>>

Reject(p, fail) ==
    LET b == SetStatus(blocks[p], Rejected)
        r == RejectCall([state EXCEPT !.log = <<>>], verifiedBlocks, b, fail)
    IN  /\ last = NoCall
        /\ blocks' = [blocks EXCEPT ![p] = b]
        /\ state' = r.state
        /\ verifiedBlocks' = r.verifiedBlocks
        /\ last' = [op |-> "Reject", b |-> p, err |-> r.err]
        /\ everWritten' = everWritten \cup Writes(r.state.log)
        /\ Failed(fail)
        /\ UNCHANGED <<verifiedEver, calls>>

----------------------------------------------------------------------------
(* The environment: the blocks that arrive and what the wall clock reads.  *)

\* The timestamps a proposed block claims: around genesis, around now + 1h.
Timestamps ==
    {GenesisTime - 1, GenesisTime} \cup (Now0 + Hour)..(Now0 + Hour + MaxSkew)

\* The readings of the wall clock.
Clock == Now0..(Now0 + MaxSkew)

\* The proposed blocks, blocks[1] being genesis.
Proposed == 2..Len(blocks)

\* The parents a proposed block names: genesis or a block already allocated.
Parents == {blocks[q].id : q \in 1..Len(blocks)}

\* The status the VM initializes a block with: the one its state records
\* for the id, Processing for a block it has no record of.
KnownStatus(blkID) ==
    LET got == StateGetBlock(state, blkID) IN
    IF got.found THEN got.blk.status ELSE Processing

\* A block is built (newTimeBlock or the codec) and Initialize'd.
NewBlock(parentID, height, timestamp) ==
    LET bytes == Marshal(parentID, height, timestamp) IN
    /\ last = NoCall
    /\ Len(blocks) < NumBlocks + 1
    /\ blocks' = Append(blocks,
                        Initialize(newTimeBlock(parentID, height, timestamp),
                                   bytes,
                                   KnownStatus(ComputeHash256Array(bytes))))
    /\ last' = [op |-> "Initialize", b |-> Len(blocks) + 1, err |-> nil]
    /\ UNCHANGED <<verifiedBlocks, state, verifiedEver, everWritten, failures,
                   calls>>

----------------------------------------------------------------------------

\* The goroutines, and a goroutine that is in no call.
Threads == 1..NumThreads

Idle == [op |-> "none", b |-> 0, pc |-> "idle", race |-> "no", err |-> nil]

GenesisLayer ==
    [blks |-> Put(<<>>, Genesis.id, Record(Genesis)),
     lastAccepted |-> Genesis.id]

Init ==
    /\ blocks = <<Genesis>>
    /\ verifiedBlocks = <<>>
    /\ state = [written |-> GenesisLayer, durable |-> GenesisLayer, log |-> <<>>]
    /\ last = NoCall
    /\ verifiedEver = {}
    /\ everWritten = {}
    /\ failures = 0
    /\ calls = [t \in Threads |-> Idle]

Next ==
    \/ \E parentID \in Parents, height \in 1..MaxHeight,
          timestamp \in Timestamps :
            NewBlock(parentID, height, timestamp)
    \/ VerifyNil
    \/ \E p \in Proposed, dbErr \in BOOLEAN, now \in Clock :
            Verify(p, dbErr, now)
    \/ \E p \in Proposed, fail \in Failures : Accept(p, fail)
    \/ \E p \in Proposed, fail \in Failures \ {errSetLastAccepted} :
            Reject(p, fail)
    \/ Return

Spec == Init /\ [][Next]_vars

----------------------------------------------------------------------------
(* Calls that run at the same time.  block.go takes no lock: each call of  *)
(* a goroutine proceeds statement by statement, interleaved with the other *)
(* goroutines.  An access to the verifiedBlocks map (lines 82, 112, 123)   *)
(* takes time: it begins and it ends.  Go maps are not safe for concurrent *)
(* use, so an access that overlaps another is a data race, whose outcome   *)
(* is any of: it takes effect, it is lost, the runtime stops the process   *)
(* ("fatal error: concurrent map writes").  The store does not fail here.  *)

\* The block of goroutine t's call and its id.
CallBlock(t) == blocks[calls[t].b]

\* The goroutines inside an access to the map.
InMap == {t \in Threads : calls[t].pc \in {"inserting", "deleting"}}

\* The outcomes of a map access.
Outcomes(c) == IF c.race = "yes" THEN {"done", "lost", "fatal"} ELSE {"done"}

\* The engine calls Verify, Accept or Reject on the block at p.
ConcCall(t, op, p) ==
    /\ calls[t].pc = "idle"
    /\ calls' = [calls EXCEPT ![t] =
                    [op |-> op, b |-> p, race |-> "no", err |-> nil,
                     pc |-> IF op = "Verify" THEN "verify" ELSE "persist"]]
    /\ UNCHANGED <<blocks, verifiedBlocks, state, last, verifiedEver,
                   everWritten, failures>>

\* Verify up to its last check (lines 52-80).
ConcVerifyChecks(t, dbErr, now) ==
    LET b == CallBlock(t)
        err == VerifyErr(b, GetBlock(b.PrntID, dbErr), now)
    IN  /\ calls[t].pc = "verify"
        /\ calls' = [calls EXCEPT ![t].err = err,
                                  ![t].pc = IF err = nil THEN "insert"
                                            ELSE "returned"]
        /\ UNCHANGED <<blocks, verifiedBlocks, state, last, verifiedEver,
                       everWritten, failures>>

\* Accept and Reject up to the delete: SetStatus, PutBlock and, in Accept,
\* SetLastAccepted (lines 100-110, 119-122).
ConcPersist(t) ==
    LET c == calls[t]
        b == SetStatus(CallBlock(t),
                       IF c.op = "Accept" THEN Accepted ELSE Rejected)
        s1 == PutBlock(state, b, TRUE)
        s2 == IF c.op = "Accept" THEN SetLastAccepted(s1, b.id, TRUE) ELSE s1
    IN  /\ c.pc = "persist"
        /\ blocks' = [blocks EXCEPT ![c.b] = b]
        /\ state' = [s2 EXCEPT !.log = <<>>]
        /\ calls' = [calls EXCEPT ![t].pc = "delete"]
        /\ UNCHANGED <<verifiedBlocks, last, verifiedEver, everWritten,
                       failures>>

\* The map assignment of line 82 or the delete of line 112 or 123 begins,
\* whoever else is inside the map.
ConcMapBegin(t) ==
    LET others == InMap \ {t} IN
    /\ calls[t].pc \in {"insert", "delete"}
    /\ calls' = [u \in Threads |->
            IF u = t
            THEN [calls[t] EXCEPT
                    !.pc = IF @ = "insert" THEN "inserting" ELSE "deleting",
                    !.race = IF others # {} THEN "yes" ELSE @]
            ELSE IF u \in others THEN [calls[u] EXCEPT !.race = "yes"]
            ELSE calls[u]]
    /\ UNCHANGED <<blocks, verifiedBlocks, state, last, verifiedEver,
                   everWritten, failures>>

\* The map access ends; Verify returns nil after it, Accept and Reject go on
\* to Commit.
ConcMapEnd(t, outcome) ==
    LET c == calls[t]
        blkID == CallBlock(t).id
    IN  /\ c.pc \in {"inserting", "deleting"}
        /\ outcome \in Outcomes(c)
        /\ verifiedBlocks' =
              IF outcome # "done" THEN verifiedBlocks
              ELSE IF c.pc = "inserting"
              THEN Register(verifiedBlocks, blkID, c.b)
              ELSE Delete(verifiedBlocks, blkID)
        /\ calls' =
              IF outcome = "fatal"
              THEN [u \in Threads |-> [calls[u] EXCEPT !.pc = "fatal"]]
              ELSE [calls EXCEPT
                      ![t].pc = IF c.pc = "inserting" THEN "returned"
                                ELSE "commit",
                      ![t].race = IF outcome = "lost" THEN "lost" ELSE @]
        /\ UNCHANGED <<blocks, state, last, verifiedEver, everWritten,
                       failures>>

\* return b.vm.state.Commit() (lines 113, 124)
ConcCommit(t) ==
    /\ calls[t].pc = "commit"
    /\ state' = [Commit(state, TRUE) EXCEPT !.log = <<>>]
    /\ calls' = [calls EXCEPT ![t].pc = "returned"]
    /\ UNCHANGED <<blocks, verifiedBlocks, last, verifiedEver, everWritten,
                   failures>>

\* The call has returned; the goroutine is free for another call.
ConcReturn(t) ==
    /\ calls[t].pc = "returned"
    /\ calls' = [calls EXCEPT ![t] = Idle]
    /\ UNCHANGED <<blocks, verifiedBlocks, state, last, verifiedEver,
                   everWritten, failures>>

\* Two blocks have been proposed on genesis and initialized.
ConcBlocks ==
    LET child(timestamp) ==
            Initialize(newTimeBlock(Genesis.id, GenesisHeight + 1, timestamp),
                       Marshal(Genesis.id, GenesisHeight + 1, timestamp),
                       Processing)
    IN  <<Genesis, child(GenesisTime), child(Now0 + Hour)>>

InitConc ==
    /\ blocks = ConcBlocks
    /\ verifiedBlocks = <<>>
    /\ state = [written |-> GenesisLayer, durable |-> GenesisLayer, log |-> <<>>]
    /\ last = NoCall
    /\ verifiedEver = {}
    /\ everWritten = {}
    /\ failures = 0
    /\ calls = [t \in Threads |-> Idle]

NextConc ==
    \/ \E t \in Threads, op \in {"Verify", "Accept", "Reject"},
          p \in Proposed : ConcCall(t, op, p)
    \/ \E t \in Threads, dbErr \in BOOLEAN, now \in Clock :
            ConcVerifyChecks(t, dbErr, now)
    \/ \E t \in Threads : ConcPersist(t)
    \/ \E t \in Threads : ConcMapBegin(t)
    \/ \E t \in Threads, outcome \in {"done", "lost", "fatal"} :
            ConcMapEnd(t, outcome)
    \/ \E t \in Threads : ConcCommit(t)
    \/ \E t \in Threads : ConcReturn(t)

SpecConc == InitConc /\ [][NextConc]_vars

----------------------------------------------------------------------------
(* The properties checked.  `last` holds a call's result in the state the  *)
(* call leaves, so a predicate on `last` speaks of that call.              *)

\* The id of the block the last call was made on.
LastID == blocks[last.b].id

\* The set of entries of a sequence.
Range(seq) == {seq[i] : i \in 1..Len(seq)}

C2_PendingNeverTerminal ==
    \A blkID \in DOMAIN verifiedBlocks :
        blocks[verifiedBlocks[blkID]].status \notin Terminal

\* C3: when Accept returns nil, the state's last accepted id is the block's,
\* the state holds the block's record with status Accepted (both as read and
\* as committed), and verifiedBlocks does not hold the block's id.
C3_AcceptPost ==
    (last.op = "Accept" /\ last.err = nil) =>
        /\ state.written.lastAccepted = LastID
        /\ state.durable.lastAccepted = LastID
        /\ LastID \in DOMAIN state.written.blks
        /\ state.written.blks[LastID].status = Accepted
        /\ LastID \in DOMAIN state.durable.blks
        /\ state.durable.blks[LastID].status = Accepted
        /\ LastID \notin DOMAIN verifiedBlocks

\* Accept has returned nil on a block that Verify had registered.
C3_Witness ==
    /\ last.op = "Accept" /\ last.err = nil
    /\ LastID \in verifiedEver

\* C4: no Reject, failing or not, changes the last accepted id the state
\* reports or calls SetLastAccepted; and when Reject returns nil,
\* verifiedBlocks does not hold the block's id and the state holds the
\* block's record with status Rejected.
C4_RejectFrame ==
    /\ [][last'.op = "Reject" =>
            /\ state'.written.lastAccepted = state.written.lastAccepted
            /\ \A e \in Range(state'.log) :
                  e[1] \notin {"SetLastAccepted", "SetLastAccepted failed"}
         ]_vars
    /\ []((last.op = "Reject" /\ last.err = nil) =>
            /\ LastID \notin DOMAIN verifiedBlocks
            /\ LastID \in DOMAIN state.written.blks
            /\ state.written.blks[LastID].status = Rejected
            /\ LastID \in DOMAIN state.durable.blks
            /\ state.durable.blks[LastID].status = Rejected)

\* Reject has returned nil on a registered block while the last accepted
\* block is another one than genesis.
C4_Witness ==
    /\ last.op = "Reject" /\ last.err = nil
    /\ LastID \in verifiedEver
    /\ state.written.lastAccepted # Genesis.id

\* C5: once a block's status is Accepted or Rejected, no Verify, Accept or
\* Reject changes it.
C5_StatusMonotone ==
    [][last'.op \in {"Verify", "Accept", "Reject"} =>
        \A p \in 1..Len(blocks) :
            blocks[p].status \in Terminal =>
                blocks'[p].status = blocks[p].status
      ]_vars

\* C6: a Verify on a block whose status is Accepted or Rejected and whose id
\* is not in verifiedBlocks does not put it there.
C6_NoReentry ==
    [][(last'.op = "Verify" /\ last'.b # 0) =>
        LET b == blocks[last'.b] IN
            (b.status \in Terminal /\ b.id \notin DOMAIN verifiedBlocks) =>
                b.id \notin DOMAIN verifiedBlocks'
      ]_vars

\* C7: a block is recorded Accepted, or is the last accepted one, only if a
\* Verify of it has returned nil before (genesis comes accepted).
C7_AcceptedOnlyIfVerified ==
    /\ state.written.lastAccepted \in verifiedEver \cup {Genesis.id}
    /\ \A blkID \in DOMAIN state.written.blks :
          state.written.blks[blkID].status = Accepted =>
              blkID \in verifiedEver \cup {Genesis.id}

\* C8: every block recorded Accepted whose parent is recorded Accepted has
\* the parent's height plus one.
C8_AcceptedHeights ==
    \A blkID \in DOMAIN state.written.blks :
        LET r == state.written.blks[blkID]
            prnt == Unmarshal(r.bytes).PrntID
        IN  (/\ r.status = Accepted
             /\ prnt \in DOMAIN state.written.blks
             /\ state.written.blks[prnt].status = Accepted)
            => Unmarshal(r.bytes).Hght
                   = Unmarshal(state.written.blks[prnt].bytes).Hght + 1

\* C9: each id gets at most one record written with status Accepted or
\* Rejected, and the last accepted id is set to a given id at most once: no
\* Accept or Reject repeats a write that has succeeded before.
C9_WrittenOnce ==
    [][last'.op \in {"Accept", "Reject"} =>
        Writes(state'.log) \cap everWritten = {}
      ]_vars

\* C10: an Accept calls PutBlock, then SetLastAccepted, then Commit: it sets
\* the last accepted id only after it has written the record, commits only
\* after both, and returns nil only after a Commit that has succeeded, which
\* leaves the record and the last accepted id committed.
C10_AcceptOrder ==
    (last.op = "Accept") =>
        LET log == state.log
            put == <<"PutBlock", LastID>>
            set == <<"SetLastAccepted", LastID>>
        IN  /\ \A i \in 1..Len(log) :
                  log[i][1] \in {"SetLastAccepted", "SetLastAccepted failed"}
                      => \E j \in 1..(i - 1) : log[j] = put
            /\ \A i \in 1..Len(log) :
                  log[i][1] \in {"Commit", "Commit failed"}
                      => /\ \E j \in 1..(i - 1) : log[j] = put
                         /\ \E j \in 1..(i - 1) : log[j] = set
            /\ (last.err = nil) =>
                  /\ log = <<put, set, <<"Commit">>>>
                  /\ LastID \in DOMAIN state.durable.blks
                  /\ state.durable.blks[LastID].status = Accepted
                  /\ state.durable.lastAccepted = LastID

\* An Accept has returned nil after its three store operations.
C10_Witness ==
    /\ last.op = "Accept" /\ last.err = nil
    /\ Len(state.log) = 3

\* C11: for a block whose parent the lookup returns and whose height is the
\* parent's plus one, Verify returns nil iff
\* parent's timestamp < timestamp <= now + 1 hour, as the comment above
\* Verify has it.
C11_DocCommentValid ==
    (last.op = "Verify" /\ last.b # 0 /\ last.err \notin {errDatabaseGet, errHeight}) =>
        LET b == blocks[last.b]
            P == last.parent.blk
        IN  (last.err = nil) <=>
                (P.Tmstmp < b.Tmstmp /\ b.Tmstmp <= last.now + Hour)

\* C12: Verify returns the error of the first check that fails, in the
\* order: nil block, parent lookup, height, too early, too late.
C12_FirstFailingCheck ==
    (last.op = "Verify") =>
        IF last.b = 0 THEN last.err = errBlockNil
        ELSE LET b == blocks[last.b]
                 P == last.parent.blk
                 badHeight == b.Hght # P.Hght + 1
                 early == b.Tmstmp < P.Tmstmp
                 late == b.Tmstmp >= last.now + Hour
             IN  /\ last.err # errBlockNil
                 /\ ~last.parent.found => last.err = errDatabaseGet
                 /\ (last.parent.found /\ badHeight) => last.err = errHeight
                 /\ (last.parent.found /\ ~badHeight /\ early)
                        => last.err = errTimestampTooEarly
                 /\ (last.parent.found /\ ~badHeight /\ ~early /\ late)
                        => last.err = errTimestampTooLate

\* Verify has returned errTimestampTooEarly on a block of the right height
\* that is both too early and too late.
C12_Witness ==
    /\ last.op = "Verify" /\ last.b # 0 /\ last.err = errTimestampTooEarly
    /\ blocks[last.b].Tmstmp >= last.now + Hour
    /\ blocks[last.b].Tmstmp < last.parent.blk.Tmstmp

\* Verify has returned the height error on a block that is also too early.
C12_WitnessHeight ==
    /\ last.op = "Verify" /\ last.b # 0 /\ last.err = errHeight
    /\ blocks[last.b].Tmstmp < last.parent.blk.Tmstmp

\* C13: no Verify changes a block (its status included), the records or
\* the last accepted id of the state; a Verify that fails leaves
\* verifiedBlocks as it was, and one that returns nil changes verifiedBlocks
\* only at the block's id, where it puts the block.
C13_VerifyFrame ==
    [][last'.op = "Verify" =>
        /\ blocks' = blocks
        /\ state'.written = state.written
        /\ state'.durable = state.durable
        /\ (last'.err # nil) => verifiedBlocks' = verifiedBlocks
        /\ (last'.err = nil) =>
              LET blkID == blocks[last'.b].id IN
              /\ DOMAIN verifiedBlocks' = DOMAIN verifiedBlocks \cup {blkID}
              /\ verifiedBlocks'[blkID] = last'.b
              /\ \A k \in DOMAIN verifiedBlocks \ {blkID} :
                    verifiedBlocks'[k] = verifiedBlocks[k]
      ]_vars

\* Verify has returned nil on a block while verifiedBlocks holds another.
C13_Witness ==
    /\ last.op = "Verify" /\ last.err = nil
    /\ \E k \in DOMAIN verifiedBlocks : k # LastID

\* C14: after a Verify of a block has returned nil, another Verify of it
\* that gets the same parent and reads a clock that has not gone back
\* returns nil too and leaves verifiedBlocks as the first call left it, the
\* block being registered under its id.
C14_VerifyIdempotent ==
    (last.op = "Verify" /\ last.err = nil) =>
        LET b == blocks[last.b] IN
        /\ b.id \in DOMAIN verifiedBlocks
        /\ verifiedBlocks[b.id] = last.b
        /\ \A dbErr \in BOOLEAN, now \in Clock :
              LET got == GetBlock(b.PrntID, dbErr) IN
              (got = last.parent /\ now >= last.now) =>
                  /\ VerifyErr(b, got, now) = nil
                  /\ Register(verifiedBlocks, b.id, last.b) = verifiedBlocks

\* Verify has returned nil on a block whose parent is itself registered, at
\* a time after which the clock can still advance.
C14_Witness ==
    /\ last.op = "Verify" /\ last.err = nil
    /\ last.now < Now0 + MaxSkew
    /\ blocks[last.b].PrntID \in DOMAIN verifiedBlocks

\* C15: an Accept or Reject in which a store operation fails returns that
\* operation's error and calls no store operation after it, and the block
\* carries the new status all the same.
C15_FailureStopsCall ==
    (last.op \in {"Accept", "Reject"} /\ last.err # nil) =>
        LET log == state.log
            put == <<"PutBlock", LastID>>
        IN  /\ blocks[last.b].status =
                  (IF last.op = "Accept" THEN Accepted ELSE Rejected)
            /\ last.err \in {errPutBlock, errSetLastAccepted, errCommit}
            /\ (last.err = errPutBlock) =>
                  log = << <<"PutBlock failed", LastID>> >>
            /\ (last.err = errSetLastAccepted) =>
                  /\ last.op = "Accept"
                  /\ log = <<put, <<"SetLastAccepted failed", LastID>> >>
            /\ (last.err = errCommit) =>
                  log = (IF last.op = "Accept"
                         THEN <<put, <<"SetLastAccepted", LastID>>,
                                <<"Commit failed">> >>
                         ELSE <<put, <<"Commit failed">> >>)

\* An Accept has returned the error of SetLastAccepted.
C15_Witness ==
    /\ last.op = "Accept" /\ last.err = errSetLastAccepted
    /\ blocks[last.b].status = Accepted

\* C17: blocks with the same bytes have the same id, whatever their status;
\* to Initialize a block again with its bytes, with whatever status, gives
\* the same id; and no Verify, Accept or Reject changes the id of a block.
C17_IdFromBytes ==
    /\ [](\A p, q \in 1..Len(blocks) :
            blocks[p].bytes = blocks[q].bytes => blocks[p].id = blocks[q].id)
    /\ [](\A p \in 1..Len(blocks), status \in Statuses :
            Initialize(blocks[p], blocks[p].bytes, status).id = blocks[p].id)
    /\ [][last'.op \in {"Verify", "Accept", "Reject"} =>
            \A p \in 1..Len(blocks) : blocks'[p].id = blocks[p].id
         ]_vars

\* Two blocks have been initialized with the same bytes and carry different
\* statuses, one of them after an Accept or Reject.
C17_Witness ==
    \E p, q \in 1..Len(blocks) :
        /\ p # q
        /\ blocks[p].bytes = blocks[q].bytes
        /\ blocks[p].status # blocks[q].status
        /\ blocks[p].id = blocks[q].id
        /\ last.op \in {"Accept", "Reject"}

\* The state's committed layer records the id as Accepted.
DurablyAccepted(st, blkID) ==
    /\ blkID \in DOMAIN st.durable.blks
    /\ st.durable.blks[blkID].status = Accepted

\* C18: what an Accept that failed has written is not committed by a later
\* call on another block: an Accept or Reject of a block that returns nil
\* makes no other block committed as Accepted and does not make another
\* block the committed last accepted one.
C18_NoDurableTrace ==
    [][(last'.op \in {"Accept", "Reject"} /\ last'.err = nil) =>
        \A q \in 1..Len(blocks) :
            LET B == blocks[q].id IN
            B # blocks[last'.b].id =>
                /\ DurablyAccepted(state', B) => DurablyAccepted(state, B)
                /\ state'.durable.lastAccepted = B
                       => state.durable.lastAccepted = B
      ]_vars

\* C19: an Accept or Reject that returns an error leaves verifiedBlocks as
\* it was before the call.
C19_FailureKeepsPending ==
    [][(last'.op \in {"Accept", "Reject"} /\ last'.err # nil) =>
        verifiedBlocks' = verifiedBlocks
      ]_vars

\* C20: the committed layer of the state records the block its last
\* accepted id names, with status Accepted.
C20_LastAcceptedIsAccepted ==
    DurablyAccepted(state, state.durable.lastAccepted)

\* C16 (SpecConc): the accesses to verifiedBlocks exclude one another: at
\* most one goroutine is inside the map at a time, no insert or remove is
\* lost and the map is not corrupted (the runtime does not stop the
\* process).
C16_MapAccessExclusive ==
    /\ Cardinality(InMap) <= 1
    /\ \A t \in Threads : calls[t].race # "lost"
    /\ \A t \in Threads : calls[t].pc # "fatal"

====
